---- MODULE Spec2Model ----
(***************************************************************************)
(* Model of the two scripts that instrument PDFPane.tsx:                   *)
(*   add_debug_logs_v2.py  (the patcher: five guarded insertion rules)     *)
(*   remove_debug_logs.py  (the unpatcher: three removal passes)           *)
(*                                                                         *)
(* The file's text is a sequence of tokens.  A token stands for one fixed  *)
(* substring of the text: a newline, a run of blanks, or one of the        *)
(* literals the scripts' patterns mention.  Every pattern of the scripts   *)
(* matches whole tokens, so substring tests, str.replace and the regular   *)
(* expressions are computed on tokens exactly as Python computes them on   *)
(* the characters.                                                         *)
(*                                                                         *)
(*   NL    "\n"                                                            *)
(*   SP    a run of blanks (indentation)                                   *)
(*   W     an ordinary word: no brace, no parenthesis, no blank            *)
(*   LB    "{"            RB   "}"                                         *)
(*   DEF   "const addDebugLog = (msg: string) => {"                        *)
(*   CLOG  "console.log(msg)"                                              *)
(*   A2    "addDebugLog(`✅ Valid tap, gap=${timeSinceLastTap}ms`)"        *)
(*   A3    "addDebugLog('🎉 DOUBLE TAP SUCCESS!')"                         *)
(*   A4    "addDebugLog('📝 First tap recorded')"                          *)
(*   A5    "addDebugLog('⏱️ Timeout - reset')"                             *)
(*   I2    "addDebugLog(`🔍 Check: Ref=${...current}, Now=${now}`)"        *)
(*   I3    "addDebugLog(`🔄 Undo Reset. Was: ${...current}`)"              *)
(*   I4    "addDebugLog(`💾 Set Ref. Was: ${...current} -> New: ${now}`)"  *)
(*   I5    "addDebugLog(`🗑️ Timeout Reset. Was: ${...current}`)"           *)
(*   MC    "// マウント確認用"                                             *)
(*   UE    "useEffect(() => {"                                             *)
(*   MNT   "addDebugLog('🚀 PDFPane Mounted')"                             *)
(*   RETP  "return () => "                                                 *)
(*   UNM   "addDebugLog('💀 PDFPane Unmounted')"                           *)
(*   UTAIL ", [])"                                                         *)
(*   CALL  "addDebugLog('x')"      any other call of addDebugLog           *)
(*   OC    "myaddDebugLog('x')"    a call of a function of another name    *)
(*   MK1.. MK5   a comment that holds rule k's detection marker            *)
(*   DLD   "{/* Debug Log Display (iPad用) */}"                            *)
(*   DLDW  "// Debug Log Display"  an ordinary mention of the phrase       *)
(*   DLEN  "{debugLogs.length > 0 && ("                                    *)
(*   DLENW "debugLogs.length"      an ordinary mention of the phrase       *)
(*   MAP   "{debugLogs.map((log, i) => ("                                  *)
(*   PPB   "))}"          DIVE "</div>"          PB   ")}"                 *)
(***************************************************************************)
EXTENDS Integers, Sequences, FiniteSets, TLC

\* file: the text of PDFPane.tsx on disk.
\* hist: the runs made so far, oldest first; each entry holds the script run
\*       (op) and the values its variable content took, statement by
\*       statement (trace).  Nothing in the scripts reads it.
VARIABLES file, hist

vars == <<file, hist>>

(***************************************************************************)
(* Tokens and what the scripts' tests see in them.                         *)
(***************************************************************************)
IsWs(t) == t \in {"NL", "SP"}

\* line.count('{') of one token
Opens(t) ==
  CASE t \in {"LB", "DEF", "UE", "DLD", "DLEN", "MAP", "A2", "I3", "I5"} -> 1
    [] t \in {"I2", "I4"} -> 2
    [] OTHER -> 0

\* line.count('}') of one token
Closes(t) ==
  CASE t \in {"RB", "DLD", "PPB", "PB", "A2", "I3", "I5"} -> 1
    [] t \in {"I2", "I4"} -> 2
    [] OTHER -> 0

\* the pattern with the function's name matched anywhere in a word
IsCallAnyName(t) ==
  t \in {"A2", "A3", "A4", "A5", "I2", "I3", "I4", "I5", "MNT", "UNM", "CALL",
         "OC"}

\* the tokens of the shape  addDebugLog(<argument without ")">)
IsCall(t) ==
  t \in {"A2", "A3", "A4", "A5", "I2", "I3", "I4", "I5", "MNT", "UNM", "CALL"}

Rules == 1..5

\* the literal each rule looks for before it inserts (the guard's substring)
MarkerTokens(k) ==
  CASE k = 1 -> {"MNT", "MK1"}
    [] k = 2 -> {"I2", "MK2"}
    [] k = 3 -> {"I3", "MK3"}
    [] k = 4 -> {"I4", "MK4"}
    [] k = 5 -> {"I5", "MK5"}

\* '<marker>' in content
HasMarker(k, s) == \E i \in 1..Len(s) : s[i] \in MarkerTokens(k)

\* the literal anchors of rules 2..5 (str.replace's first argument)
Anchor(k) ==
  CASE k = 2 -> "A2" [] k = 3 -> "A3" [] k = 4 -> "A4" [] k = 5 -> "A5"

\* what rules 2..5 put behind the anchor: "\n", the indentation, the new call
Inserted(k) ==
  CASE k = 2 -> <<"NL", "SP", "I2">>
    [] k = 3 -> <<"NL", "SP", "I3">>
    [] k = 4 -> <<"NL", "SP", "I4">>
    [] k = 5 -> <<"NL", "SP", "I5">>

mount_log ==
  <<"NL", "SP", "MC",
    "NL", "SP", "UE",
    "NL", "SP", "MNT",
    "NL", "SP", "RETP", "UNM",
    "NL", "SP", "RB", "UTAIL",
    "NL">>

(***************************************************************************)
(* add_debug_logs_v2.py                                                    *)
(***************************************************************************)
\* s.count(t)
Count(s, t) == Cardinality({i \in 1..Len(s) : s[i] = t})

Least(S) == CHOOSE x \in S : \A y \in S : x <= y
Greatest(S) == CHOOSE x \in S : \A y \in S : y <= x

\* least index >= i of a token that holds "}", 0 when there is none
FirstClose(s, i) ==
  LET S == {j \in i..Len(s) : Closes(s[j]) > 0}
  IN IF S = {} THEN 0 ELSE Least(S)

\* greatest index < j of a token that is not white space, 0 when there is none
LastNonWsBefore(s, j) ==
  LET S == {c \in 1..(j - 1) : ~IsWs(s[c])}
  IN IF S = {} THEN 0 ELSE Greatest(S)

\* The end of the match of
\*   const addDebugLog = \(msg: string\) => \{[^}]+\n\s+console\.log\(msg\)\n\s+\}
\* that starts at token i, 0 when it does not match there.  [^}]+ cannot pass a
\* "}", so the match ends at the first "}" behind the header; before it there
\* must be "\n\s+", before that console.log(msg), before that "\n\s+", and
\* before that at least one character of body.
DefMatchEnd(s, i) ==
  IF i > Len(s) \/ s[i] # "DEF" THEN 0
  ELSE LET j == FirstClose(s, i + 1)
           c == IF j = 0 THEN 0 ELSE LastNonWsBefore(s, j)
       IN IF /\ j # 0
             /\ s[j] = "RB"
             /\ c > i
             /\ s[c] = "CLOG"
             /\ j - c >= 3
             /\ s[c + 1] = "NL"
             /\ \E p \in (i + 2)..(c - 2) :
                   /\ s[p] = "NL"
                   /\ \A q \in (p + 1)..(c - 1) : IsWs(s[q])
          THEN j
          ELSE 0

\* re.sub(pattern, r'\1' + mount_log, content) from token pos on: the
\* leftmost match, the text in front of it copied, and on behind the match
RECURSIVE SubMountLog(_, _)
SubMountLog(s, pos) ==
  LET starts == {i \in pos..Len(s) : DefMatchEnd(s, i) # 0}
  IN IF starts = {} THEN SubSeq(s, pos, Len(s))
     ELSE LET j == DefMatchEnd(s, Least(starts))
          IN SubSeq(s, pos, j) \o mount_log \o SubMountLog(s, j + 1)

\* str.replace(old, old + ins) on the tokens from pos on, at most count times
\* (count < 0: every occurrence)
RECURSIVE ReplaceFrom(_, _, _, _, _)
ReplaceFrom(s, pos, old, ins, count) ==
  LET occ == {i \in pos..Len(s) : s[i] = old}
  IN IF occ = {} \/ count = 0 THEN SubSeq(s, pos, Len(s))
     ELSE LET i == Least(occ)
          IN SubSeq(s, pos, i) \o ins \o ReplaceFrom(s, i + 1, old, ins, count - 1)

\* Replace with count=1: only the first occurrence
ReplaceFirst(s, old, ins) == ReplaceFrom(s, 1, old, ins, 1)

\* Replace by find() and slicing with the -1 of a missing anchor unchecked:
\* the text is cut at the front and the insertion lands there
ReplaceUnchecked(s, old, ins) ==
  IF \A i \in 1..Len(s) : s[i] # old THEN ins \o s
  ELSE ReplaceFrom(s, 1, old, ins, -1)

\* content.replace(old, old + ins): every occurrence of the token old
Replace(s, old, ins) == ReplaceFrom(s, 1, old, ins, -1)

\* the rule without its presence check
GuardOff(k, s) == TRUE

\* if '<marker>' not in content  (the guard of rule k)
Guard(k, s) == ~HasMarker(k, s)

\* rule k applied to the text s
Rule(k, s) ==
  IF ~Guard(k, s) THEN s
  ELSE IF k = 1 THEN SubMountLog(s, 1)
  ELSE Replace(s, Anchor(k), Inserted(k))

\* the values of content: as read, and after each of the five rules
PatchTrace(s) ==
  LET c1 == Rule(1, s)
      c2 == Rule(2, c1)
      c3 == Rule(3, c2)
      c4 == Rule(4, c3)
      c5 == Rule(5, c4)
  IN <<s, c1, c2, c3, c4, c5>>

patch(s) == PatchTrace(s)[6]

(***************************************************************************)
(* remove_debug_logs.py                                                    *)
(***************************************************************************)
\* ^ under re.MULTILINE: the start of the text or the place behind a "\n"
LineStart(s, i) == i = 1 \/ s[i - 1] = "NL"

\* least index >= i of a token that is not white space, Len(s) + 1 when none
FirstNonWs(s, i) ==
  LET S == {k \in i..Len(s) : ~IsWs(s[k])}
  IN IF S = {} THEN Len(s) + 1 ELSE Least(S)

\* the end of "\s*\n" tried behind token k: the greedy \s* takes the whole run
\* of white space and gives back up to its last "\n"; 0 when the run has none
LastNewlineAfter(s, k) ==
  LET stop == FirstNonWs(s, k + 1)
      nls  == {e \in (k + 1)..(stop - 1) : s[e] = "NL"}
  IN IF nls = {} THEN 0 ELSE Greatest(nls)

\* the end of the match of  ^\s*addDebugLog\([^)]+\)\s*\n  that starts at
\* token i, 0 when it does not match there
CallMatchEnd(s, i) ==
  IF ~LineStart(s, i) THEN 0
  ELSE LET k == FirstNonWs(s, i)
       IN IF k <= Len(s) /\ IsCall(s[k]) THEN LastNewlineAfter(s, k) ELSE 0

\* re.sub(r'^\s*addDebugLog\([^)]+\)\s*\n', '', content, flags=re.MULTILINE)
\* from token pos on: the leftmost match dropped, the text in front of it
\* copied, and on behind the match
RECURSIVE SubCalls(_, _)
SubCalls(s, pos) ==
  LET starts == {i \in pos..Len(s) : CallMatchEnd(s, i) # 0}
  IN IF starts = {} THEN SubSeq(s, pos, Len(s))
     ELSE LET i == Least(starts)
          IN SubSeq(s, pos, i - 1) \o SubCalls(s, CallMatchEnd(s, i) + 1)

\* least index >= i of the token t, 0 when there is none
FirstOf(s, t, i) ==
  LET S == {k \in i..Len(s) : s[k] = t}
  IN IF S = {} THEN 0 ELSE Least(S)

\* the end of  \n\s*\)\)\}\s*</div>\s*\)\}\s*\n  when its "))}" is token q,
\* 0 when the text around q is not of that form
DisplayTailEnd(s, q) ==
  LET c == LastNonWsBefore(s, q)
      d == FirstNonWs(s, q + 1)
      b == IF d <= Len(s) THEN FirstNonWs(s, d + 1) ELSE Len(s) + 1
  IN IF /\ s[q] = "PPB"
        /\ \E e \in (c + 1)..(q - 1) : s[e] = "NL"
        /\ d <= Len(s) /\ s[d] = "DIVE"
        /\ b <= Len(s) /\ s[b] = "PB"
     THEN LastNewlineAfter(s, b)
     ELSE 0

\* the end of the match of debug_display_pattern that starts at token i, 0
\* when it does not match there: the white space before the comment, the
\* comment, lazily on to the first debugLogs.map, lazily on to the first tail
DisplayMatchEnd(s, i) ==
  LET k == FirstNonWs(s, i)
      m == IF k <= Len(s) /\ s[k] = "DLD" THEN FirstOf(s, "MAP", k + 1) ELSE 0
      qs == IF m = 0 THEN {}
            ELSE {q \in (m + 1)..Len(s) : DisplayTailEnd(s, q) # 0}
  IN IF qs = {} THEN 0
     ELSE DisplayTailEnd(s, Least(qs))

\* re.sub(debug_display_pattern, '', content, flags=re.DOTALL) from token
\* pos on: the leftmost match dropped, the text in front of it copied, and
\* on behind the match
RECURSIVE SubDisplay(_, _)
SubDisplay(s, pos) ==
  LET starts == {i \in pos..Len(s) : DisplayMatchEnd(s, i) # 0}
  IN IF starts = {} THEN SubSeq(s, pos, Len(s))
     ELSE LET i == Least(starts)
          IN SubSeq(s, pos, i - 1) \o SubDisplay(s, DisplayMatchEnd(s, i) + 1)

\* the token index of the k-th "\n" of s (0 for k = 0, Len(s) + 1 behind the last)
NewlineAt(s, k) ==
  LET nls == {i \in 1..Len(s) : s[i] = "NL"}
  IN IF k = 0 THEN 0
     ELSE IF k > Cardinality(nls) THEN Len(s) + 1
     ELSE CHOOSE i \in nls : Cardinality({j \in nls : j <= i}) = k

\* content.split('\n'): the lines of s, one more than it has newlines
Split(s) ==
  [k \in 1..(Count(s, "NL") + 1) |->
     SubSeq(s, NewlineAt(s, k - 1) + 1, NewlineAt(s, k) - 1)]

\* '\n'.join(ls[a..b])
RECURSIVE JoinRange(_, _, _)
JoinRange(ls, a, b) ==
  IF a > b THEN <<>>
  ELSE IF a = b THEN ls[a]
  ELSE LET m == (a + b) \div 2
       IN JoinRange(ls, a, m) \o <<"NL">> \o JoinRange(ls, m + 1, b)

\* '\n'.join(ls)
Join(ls) == JoinRange(ls, 1, Len(ls))

\* 'debugLogs.length' in line
HasLength(line) == \E i \in 1..Len(line) : line[i] \in {"DLEN", "DLENW"}

\* 'Debug Log Display' in line
HasDisplay(line) == \E i \in 1..Len(line) : line[i] \in {"DLD", "DLDW"}

\* 'Debug Log Display' in line or 'debugLogs.length' in line
IsMarkerLine(line) == HasDisplay(line) \/ HasLength(line)

\* line.count('{') - line.count('}') summed over the lines a..b of ls
\* (a token holds at most two braces of a kind)
Cum(ls, a, b) ==
  LET P == UNION {{<<l, i>> : i \in 1..Len(ls[l])} : l \in a..b}
      n(Kind(_), c) == Cardinality({p \in P : Kind(ls[p[1]][p[2]]) >= c})
  IN (n(Opens, 1) + n(Opens, 2)) - (n(Closes, 1) + n(Closes, 2))

\* line.count('{') - line.count('}')
Net(line) == Cum(<<line>>, 1, 1)

\* what a marker line sets skip_until_close to
MarkerDepth(line) == 1

\* The loop over lines: new_lines, for the lines from i on and
\* skip_until_close = skip.  While skip = 0 the lines up to the next marker
\* line are appended; a marker line sets skip; while skip > 0 the lines are
\* passed over up to the first at which skip plus the braces counted since
\* is <= 0 (skip becomes 0) or which is a marker line (skip is set again).
RECURSIVE ScanLines(_, _, _)
ScanLines(lines, i, skip) ==
  IF i > Len(lines) THEN <<>>
  ELSE LET stops == {j \in i..Len(lines) :
                       \/ IsMarkerLine(lines[j])
                       \/ skip > 0 /\ skip + Cum(lines, i, j) <= 0}
       IN IF stops = {} THEN (IF skip > 0 THEN <<>> ELSE SubSeq(lines, i, Len(lines)))
          ELSE LET j == Least(stops)
               IN (IF skip > 0 THEN <<>> ELSE SubSeq(lines, i, j - 1))
                  \o ScanLines(lines, j + 1,
                               IF IsMarkerLine(lines[j])
                               THEN MarkerDepth(lines[j]) ELSE 0)

\* the fallback: if 'debugLogs.length' in content: ... '\n'.join(new_lines)
BraceScan(s) ==
  IF HasLength(s) THEN Join(ScanLines(Split(s), 1, 0)) ELSE s

\* the values of content: as read, and after each of the three passes
UnpatchTrace(s) ==
  LET c1 == SubCalls(s, 1)
      c2 == SubDisplay(c1, 1)
      c3 == BraceScan(c2)
  IN <<s, c1, c2, c3>>

unpatch(s) == UnpatchTrace(s)[4]

(***************************************************************************)
(* The texts the scripts are started on: up to MaxSegs pieces of a library *)
(* of lines and blocks, in any order.                                      *)
(***************************************************************************)
MaxSegs == 3
MaxRuns == 3

RECURSIVE Texts(_, _)
Texts(lib, n) ==
  IF n = 0 THEN {<<>>}
  ELSE LET T == Texts(lib, n - 1)
       IN T \cup {t \o seg : t \in T, seg \in lib}

\* the definition of addDebugLog as rule 1's pattern expects it
DefBlock ==
  <<"DEF", "NL", "SP", "W", "NL", "SP", "CLOG", "NL", "SP", "RB", "NL">>

\* a definition with an empty body: [^}]+ finds nothing in front of the "\n"
EmptyDef == <<"DEF", "NL", "SP", "CLOG", "NL", "SP", "RB", "NL">>

\* the four calls rules 2..5 anchor on, each on a line of its own
AnchorLines ==
  <<"SP", "A2", "NL", "SP", "A3", "NL", "SP", "A4", "NL", "SP", "A5", "NL">>

\* the log display section as debug_display_pattern expects it
DisplayBlock ==
  <<"SP", "DLD", "NL", "DLEN", "NL", "MAP", "NL", "W",
    "NL", "SP", "PPB", "NL", "DIVE", "NL", "PB", "NL">>

PatchSegs ==
  { DefBlock, EmptyDef,
    <<"SP", "A2", "NL">>, <<"W", "SP", "A3", "W", "NL">>,
    <<"SP", "A4", "NL", "SP", "A5", "NL">>,
    <<"MK1", "NL">>, <<"MK2", "NL">>, <<"W", "NL">> }

UnpatchSegs ==
  { <<"SP", "CALL", "NL">>, <<"NL">>, <<"SP", "OC", "NL">>,
    <<"DLDW", "NL">>, <<"W", "DLENW", "NL">>, <<"SP", "DLEN", "NL">>,
    <<"SP", "DLEN", "LB", "NL">>, <<"RB", "NL">>, DisplayBlock }

CanonicalSegs ==
  { DefBlock, AnchorLines, <<"W", "NL">>, <<"NL">>, <<"SP", "OC", "NL">>,
    DisplayBlock }

(***************************************************************************)
(* The two scripts.  Each run reads the file, transforms content statement *)
(* by statement and writes the file back.                                  *)
(***************************************************************************)
RunPatch ==
  /\ Len(hist) < MaxRuns
  /\ file' = patch(file)
  /\ hist' = Append(hist, [op |-> "patch", trace |-> PatchTrace(file)])

RunUnpatch ==
  /\ Len(hist) < MaxRuns
  /\ file' = unpatch(file)
  /\ hist' = Append(hist, [op |-> "unpatch", trace |-> UnpatchTrace(file)])

Next == RunPatch \/ RunUnpatch

\* started on an unpatched file
Init == file \in Texts(CanonicalSegs, MaxSegs) /\ hist = <<>>
Spec == Init /\ [][Next]_vars

\* started on any text made of the pieces the patcher's rules look at
InitPatch == file \in Texts(PatchSegs, MaxSegs) /\ hist = <<>>
SpecPatch == InitPatch /\ [][Next]_vars

\* started on any text made of the pieces the unpatcher's passes look at
InitUnpatch == file \in Texts(UnpatchSegs, MaxSegs) /\ hist = <<>>
SpecUnpatch == InitUnpatch /\ [][Next]_vars

(***************************************************************************)
(* Properties.                                                             *)
(***************************************************************************)

PatchRuns == {n \in 1..Len(hist) : hist[n].op = "patch"}
UnpatchRuns == {n \in 1..Len(hist) : hist[n].op = "unpatch"}

\* the ends of the matches of rule 1's pattern in s
DefMatchEnds(s) == {DefMatchEnd(s, i) : i \in 1..Len(s)} \ {0}

\* rule k's anchor occurs in s
AnchorOccurs(k, s) ==
  IF k = 1 THEN DefMatchEnds(s) # {}
  ELSE \E i \in 1..Len(s) : s[i] = Anchor(k)

\* the number of places of s at which rule k inserts
Occurrences(k, s) ==
  IF k = 1 THEN Cardinality(DefMatchEnds(s)) ELSE Count(s, Anchor(k))

\* the call that only rule k's inserted text holds
InsertedCall(k) ==
  CASE k = 1 -> "MNT" [] k = 2 -> "I2" [] k = 3 -> "I3"
    [] k = 4 -> "I4" [] k = 5 -> "I5"

\* every occurrence of rule k's anchor in s has the rule's text right behind it
EveryAnchorFollowed(k, s) ==
  IF k = 1
  THEN \A j \in DefMatchEnds(s) :
         /\ j + Len(mount_log) <= Len(s)
         /\ SubSeq(s, j + 1, j + Len(mount_log)) = mount_log
  ELSE \A i \in 1..Len(s) :
         s[i] = Anchor(k) =>
           /\ i + 3 <= Len(s)
           /\ SubSeq(s, i + 1, i + 3) = Inserted(k)

\* C1: a patch run that directly follows a patch run leaves the text as the
\* first run wrote it: patch(patch(T)) = patch(T), for every text T.
C1_Idempotent ==
  \A n \in PatchRuns :
    (n + 1) \in PatchRuns => hist[n + 1].trace[6] = hist[n].trace[6]

\* two patch runs in a row, the first of which inserted the lifecycle block
\* and a companion call, and skipped a rule for want of its anchor
C1_Witness ==
  \E n \in PatchRuns :
    /\ (n + 1) \in PatchRuns
    /\ hist[n].trace[2] # hist[n].trace[1]
    /\ hist[n].trace[6] # hist[n].trace[2]
    /\ \E k \in Rules : ~AnchorOccurs(k, hist[n].trace[1])

\* C7: a rule whose anchor does not occur in T leaves content as it found
\* it, and when no rule's anchor occurs the patcher writes T back unchanged.
C7_SilentSkip ==
  \A n \in PatchRuns :
    LET tr == hist[n].trace
    IN /\ \A k \in Rules :
            ~AnchorOccurs(k, tr[1]) => tr[k + 1] = tr[k]
       /\ (\A k \in Rules : ~AnchorOccurs(k, tr[1])) => tr[6] = tr[1]

\* a patch run on a text with a definition rule 1's pattern does not match
\* and no marker of rule 1, in which another rule found its anchor
C7_Witness ==
  \E n \in PatchRuns :
    LET tr == hist[n].trace
    IN /\ Count(tr[1], "DEF") > 0
       /\ ~AnchorOccurs(1, tr[1])
       /\ ~HasMarker(1, tr[1])
       /\ tr[2] = tr[1]
       /\ \E k \in 2..5 : AnchorOccurs(k, tr[1]) /\ tr[k + 1] # tr[k]
       /\ \E k \in 2..5 : ~AnchorOccurs(k, tr[1]) /\ ~HasMarker(k, tr[1])

\* C6 as stated: when rule k's marker is absent from T and its anchor occurs
\* in T, the patched text holds rule k's inserted text exactly once.
C6_InsertedOnce ==
  \A n \in PatchRuns : \A k \in Rules :
    LET tr == hist[n].trace
    IN (~HasMarker(k, tr[1]) /\ AnchorOccurs(k, tr[1]))
         => Count(tr[6], InsertedCall(k)) = 1

\* C6 amended: when rule k's marker is absent from T and its anchor occurs
\* in T, the patched text holds rule k's inserted text once for every
\* occurrence of the anchor in T, right behind each occurrence.
C6_InsertedAtEvery ==
  \A n \in PatchRuns : \A k \in Rules :
    LET tr == hist[n].trace
    IN (~HasMarker(k, tr[1]) /\ AnchorOccurs(k, tr[1]))
         => /\ Count(tr[6], InsertedCall(k)) = Occurrences(k, tr[1])
            /\ Occurrences(k, tr[6]) = Occurrences(k, tr[1])
            /\ EveryAnchorFollowed(k, tr[6])

\* a patch run on a text with a match of rule 1's pattern and two occurrences
\* of a literal anchor, each with its inserted text in the output
C6_Witness ==
  \E n \in PatchRuns :
    LET tr == hist[n].trace
    IN /\ ~HasMarker(1, tr[1]) /\ Occurrences(1, tr[1]) = 1
       /\ Count(tr[6], "MNT") = 1
       /\ \E k \in 2..5 :
            /\ ~HasMarker(k, tr[1]) /\ Occurrences(k, tr[1]) = 2
            /\ Count(tr[6], InsertedCall(k)) = 2

\* an injected statement: a call of addDebugLog itself, whatever its message
InjectedStatement(t) ==
  t \in {"A2", "A3", "A4", "A5", "I2", "I3", "I4", "I5", "MNT", "UNM", "CALL"}

NotBlank(t) == t # "SP"

\* a line that is an addDebugLog call: indentation, the call, trailing blanks
IsCallLine(line) ==
  LET w == SelectSeq(line, NotBlank)
  IN Len(w) = 1 /\ InjectedStatement(w[1])

NoCallLine(s) ==
  LET ls == Split(s) IN \A i \in 1..Len(ls) : ~IsCallLine(ls[i])

NotCallLine(line) == ~IsCallLine(line)

\* the lines ls without those that are calls and end in a newline (the last
\* line has no newline behind it)
KeepOtherLines(ls) ==
  SelectSeq(SubSeq(ls, 1, Len(ls) - 1), NotCallLine) \o <<ls[Len(ls)]>>

\* C10: the line-removal pass deletes the lines that are addDebugLog calls
\* and keeps every other line, blank lines next to a call included, unchanged
\* and in order.
C10_OnlyCallLinesDropped ==
  \A n \in UnpatchRuns :
    hist[n].trace[2] = Join(KeepOtherLines(Split(hist[n].trace[1])))

\* C4 as stated: a text without a line that is an addDebugLog call comes out
\* of the unpatcher unchanged, also when it mentions debugLogs.length.
C4_NoCallsUnchanged ==
  \A n \in UnpatchRuns :
    NoCallLine(hist[n].trace[1]) => hist[n].trace[4] = hist[n].trace[1]

NoDisplaySection(s) == \A i \in 1..Len(s) : DisplayMatchEnd(s, i) = 0

\* C4 amended: a text without a line that is an addDebugLog call, without
\* the phrase debugLogs.length and without a log display section comes out of
\* the unpatcher unchanged, also when it holds calls of another name or
\* mentions Debug Log Display.
C4_NoCallsNoDisplayUnchanged ==
  \A n \in UnpatchRuns :
    LET T == hist[n].trace[1]
    IN (NoCallLine(T) /\ ~HasLength(T) /\ NoDisplaySection(T))
         => hist[n].trace[4] = T

\* an unpatch run on such a text that holds a call of another name and a
\* mention of Debug Log Display
C4_Witness ==
  \E n \in UnpatchRuns :
    LET T == hist[n].trace[1]
    IN /\ NoCallLine(T) /\ ~HasLength(T) /\ NoDisplaySection(T)
       /\ Count(T, "OC") > 0 /\ Count(T, "DLDW") > 0
       /\ hist[n].trace[4] = T

MarkerLines(ls) == {i \in 1..Len(ls) : IsMarkerLine(ls[i])}

FirstMarker(ls) == Least(MarkerLines(ls))

\* the lines from the marker line m on at which the brace count, taken from
\* the marker line's own braces, is back at the count before the block
ClosingLines(ls, m) == {c \in m..Len(ls) : Cum(ls, m, c) <= 0}

\* C5: when the text holds a marker line that opens a brace-balanced block,
\* the scan removes the lines from the marker line through the first line at
\* which the brace count, taken from the marker line's own braces, is back at
\* the count before the block, and writes the lines before and after
\* unchanged and in order.
C5_BraceBalance ==
  \A n \in UnpatchRuns :
    LET S  == hist[n].trace[3]
        ls == Split(S)
    IN (/\ HasLength(S)
        /\ Net(ls[FirstMarker(ls)]) >= 1
        /\ ClosingLines(ls, FirstMarker(ls)) # {})
         => LET m == FirstMarker(ls)
                c == Least(ClosingLines(ls, m))
            IN (\A i \in MarkerLines(ls) : i <= c)
                 => hist[n].trace[4] =
                      Join(SubSeq(ls, 1, m - 1) \o SubSeq(ls, c + 1, Len(ls)))

\* C9: when the block a marker line opens is not closed before the text
\* ends, the scan keeps every line before the marker and loses no line
\* behind it.
C9_UnclosedKeepsLines ==
  \A n \in UnpatchRuns :
    LET S   == hist[n].trace[3]
        ls  == Split(S)
        out == Split(hist[n].trace[4])
    IN (/\ HasLength(S)
        /\ Cardinality(MarkerLines(ls)) = 1
        /\ Net(ls[FirstMarker(ls)]) = 1
        /\ ClosingLines(ls, FirstMarker(ls)) = {}
        /\ \E i \in (FirstMarker(ls) + 1)..Len(ls) : ls[i] # <<>>)
         => LET m == FirstMarker(ls)
                k == Len(ls) - m
            IN /\ Len(out) >= Len(ls) - 1
               /\ SubSeq(out, 1, m - 1) = SubSeq(ls, 1, m - 1)
               /\ SubSeq(out, Len(out) - k + 1, Len(out)) =
                    SubSeq(ls, m + 1, Len(ls))

\* a text no rule has been applied to, with all five anchors and balanced
\* braces
Canonical(s) ==
  /\ \A k \in Rules : ~HasMarker(k, s) /\ AnchorOccurs(k, s)
  /\ Cum(Split(s), 1, Len(Split(s))) = 0

\* C2: the unpatcher run on the patcher's output of a canonical text T
\* writes T back.
C2_RoundTrip ==
  \A n \in PatchRuns :
    ((n + 1) \in UnpatchRuns /\ Canonical(hist[n].trace[1]))
      => hist[n + 1].trace[4] = hist[n].trace[1]

\* the tokens only the patcher's inserted text holds
InsertedTokens ==
  {"I2", "I3", "I4", "I5", "MNT", "UNM", "MC", "UE", "RETP", "UTAIL"}

\* C3: after the patcher and then the unpatcher, the text holds nothing the
\* patcher inserted: no injected call and no line of the lifecycle block.
C3_NothingInsertedRemains ==
  \A n \in PatchRuns :
    (n + 1) \in UnpatchRuns
      => \A t \in InsertedTokens :
           Count(hist[n + 1].trace[4], t) <= Count(hist[n].trace[1], t)

\* C8: whatever runs are made from an unpatched text, the file never holds
\* more lifecycle blocks than definitions of addDebugLog, nor more companion
\* calls than anchors.
C8_NoDuplicates ==
  /\ Count(file, "MC") <= Count(file, "DEF")
  /\ Count(file, "UE") <= Count(file, "DEF")
  /\ Count(file, "UNM") <= Count(file, "DEF")
  /\ \A k \in 2..5 : Count(file, InsertedCall(k)) <= Count(file, Anchor(k))

====
